---- MODULE Spec2Model ----
(***************************************************************************)
(* Model of the /categorizar endpoint of src/main.py: one invocation reads *)
(* a bank statement, parses it with the Itaú (';'-delimited) or the Nubank *)
(* (header-driven CSV) parser, classifies every row through the remote     *)
(* classifier and emits one table, or aborts with an HTTP error.           *)
(*                                                                         *)
(* Python str values are TLA+ strings; the str methods the code calls      *)
(* (strip, lower, replace, split, splitlines, float) are operators that    *)
(* compute character by character.  A value that may be None is wrapped:   *)
(* None is <<>> and the string s is <<s>>.  The model checker stores one   *)
(* byte per character, so the string literals of the source are written    *)
(* here without their accents: "Saida" for "Saída", "Descricao" for        *)
(* "Descrição", "Transferencia" for "Transferência", "Saude" for "Saúde".  *)
(***************************************************************************)
EXTENDS Integers, Sequences, FiniteSets, TLC

(***************************************************************************)
(* Bounds of the model.                                                    *)
(***************************************************************************)
\* largest number of statement lines joined into one uploaded file
MaxLines == 3

(***************************************************************************)
(* Python str methods.                                                     *)
(***************************************************************************)
Char(s, i) == SubSeq(s, i, i)

\* index of the first occurrence of the character c in s, 0 when absent
RECURSIVE FindFrom(_, _, _)
FindFrom(s, c, i) ==
    IF i > Len(s) THEN 0
    ELSE IF Char(s, i) = c THEN i
    ELSE FindFrom(s, c, i + 1)

Find(s, c) == FindFrom(s, c, 1)

\* characters str.strip() and float() treat as whitespace
IsSpace(c) == c \in {" ", "\t", "\n", "\r"}

RECURSIVE LStrip(_)
LStrip(s) == IF s # "" /\ IsSpace(Char(s, 1)) THEN LStrip(Tail(s)) ELSE s

RECURSIVE RStrip(_)
RStrip(s) ==
    IF s # "" /\ IsSpace(Char(s, Len(s)))
    THEN RStrip(SubSeq(s, 1, Len(s) - 1))
    ELSE s

\* str.strip()
Strip(s) == RStrip(LStrip(s))

UpperChars == "ABCDEFGHIJKLMNOPQRSTUVWXYZ"
LowerChars == "abcdefghijklmnopqrstuvwxyz"

\* the lower-case letter of every upper-case letter
LowerOf == [c \in { Char(UpperChars, i) : i \in 1..Len(UpperChars) } |->
                Char(LowerChars, Find(UpperChars, c))]

LowerChar(c) == IF c \in DOMAIN LowerOf THEN LowerOf[c] ELSE c

\* str.lower()
RECURSIVE Lower(_)
Lower(s) == IF s = "" THEN "" ELSE LowerChar(Char(s, 1)) \o Lower(Tail(s))

\* str.replace(a, b) for single characters a, b
RECURSIVE Replace(_, _, _)
Replace(s, a, b) ==
    IF s = "" THEN ""
    ELSE (IF Char(s, 1) = a THEN b ELSE Char(s, 1)) \o Replace(Tail(s), a, b)

\* str.split(sep) for a single character sep: a sequence of strings
RECURSIVE Split(_, _)
Split(s, sep) ==
    LET k == Find(s, sep)
    IN  IF k = 0 THEN <<s>>
        ELSE <<SubSeq(s, 1, k - 1)>> \o Split(SubSeq(s, k + 1, Len(s)), sep)

\* str.splitlines() on text whose only line boundary is "\n": no empty
\* last line after a final "\n", no line at all for the empty text
SplitLines(s) ==
    LET segs == Split(s, "\n")
    IN  IF segs[Len(segs)] = "" THEN SubSeq(segs, 1, Len(segs) - 1) ELSE segs

\* "\n".join(ls)
RECURSIVE JoinLines(_)
JoinLines(ls) ==
    IF ls = <<>> THEN ""
    ELSE IF Len(ls) = 1 THEN ls[1]
    ELSE ls[1] \o "\n" \o JoinLines(Tail(ls))

(***************************************************************************)
(* float(): the decimal literals [sign] digits [. digits] | [sign] . digits *)
(* surrounded by optional whitespace.  A float is the record               *)
(* [m |-> mantissa, e |-> decimals], its value m / 10^e, without trailing  *)
(* zero decimals, so that equal numbers are equal records.                 *)
(***************************************************************************)
Digits == "0123456789"

\* the value of every digit
ValueOf == [c \in { Char(Digits, i) : i \in 1..Len(Digits) } |-> Find(Digits, c) - 1]

IsDigit(c) == c \in DOMAIN ValueOf

DigitVal(c) == ValueOf[c]

RECURSIVE DigitsToNat(_)
DigitsToNat(s) ==
    IF s = "" THEN 0
    ELSE DigitsToNat(SubSeq(s, 1, Len(s) - 1)) * 10 + DigitVal(Char(s, Len(s)))

RECURSIVE Normal(_, _)
Normal(m, e) == IF e > 0 /\ m % 10 = 0 THEN Normal(m \div 10, e - 1) ELSE [m |-> m, e |-> e]

\* float(s): [ok |-> FALSE] stands for ValueError
ParseFloat(s) ==
    LET t    == Strip(s)
        sgn  == IF t # "" /\ Char(t, 1) \in {"-", "+"} THEN Char(t, 1) ELSE ""
        body == IF sgn = "" THEN t ELSE Tail(t)
        dot  == Find(body, ".")
        int  == IF dot = 0 THEN body ELSE SubSeq(body, 1, dot - 1)
        frac == IF dot = 0 THEN "" ELSE SubSeq(body, dot + 1, Len(body))
        ok   == /\ \A i \in 1..Len(int) : IsDigit(Char(int, i))
                /\ \A i \in 1..Len(frac) : IsDigit(Char(frac, i))
                /\ Len(int) + Len(frac) > 0
        mag  == DigitsToNat(int \o frac)
    IN  IF ok
        THEN [ok |-> TRUE,
              val |-> Normal(IF sgn = "-" THEN 0 - mag ELSE mag, Len(frac))]
        ELSE [ok |-> FALSE, val |-> [m |-> 0, e |-> 0]]

\* valor > 0
Positive(v) == v.m > 0

(***************************************************************************)
(* Python values that may be None.                                         *)
(***************************************************************************)
None == <<>>
Str(s) == <<s>>

\* f"{v}": None is rendered as the text None
Format(v) == IF v = None THEN "None" ELSE v[1]

(***************************************************************************)
(* Inputs of one invocation.                                               *)
(***************************************************************************)
\* values of the form field banco
Bancos == {"Itau", "nubank", "xyz"}

\* values of the form field portador
Portadores == {"Ana"}

\* lines of an Itaú statement: three fields, padded fields, a zero amount,
\* a two-field footer, a blank line, an amount that is no number
ItauLines ==
    { "04/03/2024;Supermercado Central;-125,50",
      "05/03/2024; Pix ;200,00",
      "06/03/2024;Tarifa;0",
      "Saldo;10",
      "",
      "07/03/2024;Uber;abc" }

\* header lines of a Nubank statement: complete, two columns missing,
\* complete in another order
NubankHeaders ==
    { "Data,Descricao,Valor,Identificador",
      "Data,Valor",
      "Valor,Descricao,Data,Identificador" }

\* data lines of a Nubank statement: complete, padded description, an amount
\* that is no number, a single cell, a blank line
NubankRows ==
    { "04/03/2024,Uber viagem,-32.00,abc123",
      "05/03/2024, Pix ,10.5,id2",
      "06/03/2024,Loja,abc,id3",
      "5",
      "" }

\* sequences of at most n elements of S
SeqsUpTo(S, n) == UNION { [1..k -> S] : k \in 0..n }

\* the uploaded files, decoded: an Itaú statement, or a Nubank statement
\* (a header line followed by data lines), or the empty file
Texts ==
    { JoinLines(ls) : ls \in SeqsUpTo(ItauLines, MaxLines) }
    \cup { JoinLines(<<h>> \o rs) :
            h \in NubankHeaders, rs \in SeqsUpTo(NubankRows, MaxLines - 1) }

\* outcomes of client.chat.completions.create: an exception, or the text of
\* the first choice
Responses ==
    { [ok |-> FALSE, content |-> ""],
      [ok |-> TRUE, content |-> " TRANSFERENCIA\n"],
      [ok |-> TRUE, content |-> " Saude"],
      [ok |-> TRUE, content |-> ""] }

(***************************************************************************)
(* HTTP errors.                                                            *)
(***************************************************************************)
NoError == [status |-> 0, kind |-> "none", linha |-> 0, faltando |-> {}]

\* HTTPException(400, "Valor inválido na linha {ln}")
ValorInvalido(n) == [status |-> 400, kind |-> "valor", linha |-> n, faltando |-> {}]

\* HTTPException(400, "Colunas faltando: ...")
ColunasFaltando(f) == [status |-> 400, kind |-> "colunas", linha |-> 0, faltando |-> f]

\* HTTPException(500, "Erro na Groq API: ...")
ErroGroq == [status |-> 500, kind |-> "groq", linha |-> 0, faltando |-> {}]

\* an exception no handler catches: the framework answers 500
Unhandled(exc) == [status |-> 500, kind |-> exc, linha |-> 0, faltando |-> {}]

(***************************************************************************)
(* State of one invocation of categorizar.                                 *)
(***************************************************************************)
VARIABLES
    banco,       \* form field banco
    portador,    \* form field portador
    text,        \* the decoded file
    pc,          \* position in categorizar, or the terminal state
    lines,       \* the lines the selected parser iterates over
    ln,          \* ln of the Itaú loop; reader.line_num in the Nubank branch
    fieldnames,  \* reader.fieldnames: None, or <<the header row>>
    resultado,   \* the list resultado
    calls,       \* requests sent to the remote classifier, with the answers
    error,       \* the HTTP error answered, NoError if none
    output       \* the response body: <<>>, or the filename and the table

vars == <<banco, portador, text, pc, lines, ln, fieldnames, resultado, calls, error, output>>

inputs == <<banco, portador, text>>

(***************************************************************************)
(* _formatar_data, on the dates of the statements above: a DD/MM/YYYY date *)
(* is parsed day first and rendered YYYY/MM/DD; whatever the parser        *)
(* rejects, None included, is returned as it came.                         *)
(***************************************************************************)
IsDate(s) ==
    /\ Len(s) = 10
    /\ Char(s, 3) = "/" /\ Char(s, 6) = "/"
    /\ \A i \in {1, 2, 4, 5, 7, 8, 9, 10} : IsDigit(Char(s, i))
    /\ DigitsToNat(SubSeq(s, 1, 2)) \in 1..31
    /\ DigitsToNat(SubSeq(s, 4, 5)) \in 1..12

_formatar_data(data) ==
    IF data # None /\ IsDate(data[1])
    THEN Str(SubSeq(data[1], 7, 10) \o "/" \o SubSeq(data[1], 4, 5) \o "/" \o SubSeq(data[1], 1, 2))
    ELSE data

(***************************************************************************)
(* classificar_transacao, given the content of the classifier's answer.    *)
(***************************************************************************)
\* the classification, were the answer compared without lower()
classificar_transacao_cased(content, tipo) ==
    LET categoria == Strip(content)
    IN  IF categoria = "Transferencia"
        THEN (IF Lower(tipo) = "entrada"
              THEN "Transferencia recebida"
              ELSE "Transferencia enviada")
        ELSE IF categoria # "" THEN categoria ELSE "Outros"

classificar_transacao(content, tipo) ==
    LET categoria == Strip(content)
    IN  IF Lower(categoria) = "transferencia"
        THEN (IF Lower(tipo) = "entrada"
              THEN "Transferencia recebida"
              ELSE "Transferencia enviada")
        ELSE IF categoria # "" THEN categoria ELSE "Outros"

\* the direction, were a zero amount an inflow
Tipo_ge(valor) == IF valor.m >= 0 THEN "Entrada" ELSE "Saida"

\* tipo = "Entrada" if valor > 0 else "Saída"
Tipo(valor) == IF Positive(valor) THEN "Entrada" ELSE "Saida"

\* the request to the remote classifier as the prompt states it, and the answer
Call(descricao, tipo, resp) ==
    [descricao |-> Format(descricao), tipo |-> tipo, resposta |-> resp]

(***************************************************************************)
(* TransacaoCategorizada: the fields in declaration order, and the model's *)
(* validation: descricao and data_transacao must be str, not None.         *)
(***************************************************************************)
FieldNames ==
    <<"descricao", "valor", "tipo", "categoria", "data_transacao", "id_transacao", "portador">>

Valid(descricao, data_transacao) == descricao # None /\ data_transacao # None

TransacaoCategorizada(descricao, valor, tipo, categoria, data_transacao, id_transacao, port) ==
    [descricao |-> descricao[1], valor |-> valor, tipo |-> tipo, categoria |-> categoria,
     data_transacao |-> data_transacao[1], id_transacao |-> id_transacao, portador |-> port]

\* item.dict() written by csv.DictWriter: the values in the order of FieldNames
WriteRow(item) ==
    <<item.descricao, item.valor, item.tipo, item.categoria,
      item.data_transacao, item.id_transacao, item.portador>>

(***************************************************************************)
(* csv.reader and csv.DictReader over io.StringIO(text), for text without  *)
(* quote characters and with "\n" as its only line boundary.               *)
(***************************************************************************)
\* the row csv.reader yields for one line: no cell at all for a blank line
CsvRow(line) == IF line = "" THEN <<>> ELSE Split(line, ",")

required == {"Data", "Descricao", "Valor", "Identificador"}

\* reader.fieldnames or []
FieldList(fn) == IF fn = None THEN <<>> ELSE fn[1]

\* set(reader.fieldnames or [])
FieldSet(fn) == { FieldList(fn)[i] : i \in 1..Len(FieldList(fn)) }

\* the whole of required, whatever the header holds
Faltando_all(fn) == required

\* required - set(reader.fieldnames or [])
Faltando(fn) == required \ FieldSet(fn)

\* the line DictReader.__next__ returns a row for: the first line after n
\* that is not blank, 0 when the reader is exhausted
NextRow(ls, n) ==
    IF \E k \in (n + 1)..Len(ls) : CsvRow(ls[k]) # <<>>
    THEN CHOOSE k \in (n + 1)..Len(ls) :
            CsvRow(ls[k]) # <<>> /\ \A j \in (n + 1)..(k - 1) : CsvRow(ls[j]) = <<>>
    ELSE 0

\* row[key] of the dict DictReader builds: dict(zip(fieldnames, row)), then
\* None for every field name beyond the end of a short row
RowGet(fn, row, key) ==
    LET lf == Len(fn)
        lr == Len(row)
        zipped == { i \in 1..lf : i <= lr /\ fn[i] = key }
    IN  IF \E i \in (lr + 1)..lf : fn[i] = key THEN None
        ELSE IF zipped = {} THEN None
        ELSE Str(row[CHOOSE i \in zipped : \A j \in zipped : j <= i])

(***************************************************************************)
(* categorizar.                                                            *)
(***************************************************************************)
\* the branch a value of banco selects, were every value but 'nubank' an
\* Itaú statement
SelectParser_nubank(b) == IF Lower(b) = "nubank" THEN "header" ELSE "itau"

\* the branch a value of banco selects
SelectParser(b) == IF Lower(b) = "itau" THEN "itau" ELSE "header"

\* the response body: the attachment's filename and the table written
Table(res, b) ==
    [filename |-> "categorias_" \o b \o ".csv",
     table |-> <<FieldNames>> \o [i \in 1..Len(res) |-> WriteRow(res[i])]]

\* an abort that answers the error together with the rows collected so far
Abort_partial(e) ==
    /\ pc' = "Aborted"
    /\ error' = e
    /\ output' = Table(resultado, banco)

\* raise: the invocation ends with the error e and no response body
Abort(e) ==
    /\ pc' = "Aborted"
    /\ error' = e
    /\ UNCHANGED output

\* a list insertion at the front
append_front(list, item) == <<item>> \o list

\* list.append
append(list, item) == Append(list, item)

\* a skip that leaves the loop: the index past the last line
Continue_break(n, ls) == Len(ls)

\* continue: the index of the line the loop has consumed after a skip
Continue(n, ls) == n + 1

Init ==
    /\ banco \in Bancos
    /\ portador \in Portadores
    /\ text \in Texts
    /\ pc = "start"
    /\ lines = <<>>
    /\ ln = 0
    /\ fieldnames = None
    /\ resultado = <<>>
    /\ calls = <<>>
    /\ error = NoError
    /\ output = <<>>

\* the file is read and decoded, the parser is selected by banco
Start ==
    /\ pc = "start"
    /\ pc' = SelectParser(banco)
    /\ lines' = SplitLines(text)
    /\ UNCHANGED <<inputs, ln, fieldnames, resultado, calls, error, output>>

\* one iteration of the loop over the lines of an Itaú statement
ItauLine ==
    /\ pc = "itau"
    /\ ln < Len(lines)
    /\ LET line  == lines[ln + 1]
           split == Split(line, ";")
           parts == [i \in 1..Len(split) |-> Strip(split[i])]
       IN  IF Len(parts) # 3
           THEN /\ ln' = Continue(ln, lines)
                /\ UNCHANGED <<pc, resultado, calls, error, output>>
           ELSE LET data      == parts[1]
                    descricao == parts[2]
                    raw_valor == parts[3]
                    parsed    == ParseFloat(Replace(raw_valor, ",", "."))
                    valor     == parsed.val
                    tipo      == Tipo(valor)
                IN  /\ ln' = ln + 1
                    /\ IF ~parsed.ok
                       THEN /\ Abort(ValorInvalido(ln'))
                            /\ UNCHANGED <<resultado, calls>>
                       ELSE \E resp \in Responses :
                            /\ calls' = append(calls, Call(Str(descricao), tipo, resp))
                            /\ IF ~resp.ok
                               THEN /\ Abort(ErroGroq)
                                    /\ UNCHANGED resultado
                               ELSE /\ resultado' = append(resultado,
                                           TransacaoCategorizada(
                                               Str(descricao), valor, tipo,
                                               classificar_transacao(resp.content, tipo),
                                               _formatar_data(Str(data)), None, portador))
                                    /\ UNCHANGED <<pc, error, output>>
    /\ UNCHANGED <<inputs, lines, fieldnames>>

\* the loop over the lines of an Itaú statement ends
ItauEnd ==
    /\ pc = "itau"
    /\ ln >= Len(lines)
    /\ pc' = "saida"
    /\ UNCHANGED <<inputs, lines, ln, fieldnames, resultado, calls, error, output>>

\* the header of a Nubank statement is read and checked
Header ==
    /\ pc = "header"
    /\ fieldnames' = IF lines = <<>> THEN None ELSE Str(CsvRow(lines[1]))
    /\ ln' = IF lines = <<>> THEN 0 ELSE 1
    /\ IF required \subseteq FieldSet(fieldnames')
       THEN pc' = "nubank" /\ UNCHANGED <<error, output>>
       ELSE Abort(ColunasFaltando(Faltando(fieldnames')))
    /\ UNCHANGED <<inputs, lines, resultado, calls>>

\* one iteration of the loop over the rows of a Nubank statement
NubankRow ==
    /\ pc = "nubank"
    /\ NextRow(lines, ln) # 0
    /\ ln' = NextRow(lines, ln)
    /\ LET fn        == FieldList(fieldnames)
           row       == CsvRow(lines[ln'])
           raw_valor == RowGet(fn, row, "Valor")
           descricao == RowGet(fn, row, "Descricao")
           data      == RowGet(fn, row, "Data")
       IN  IF raw_valor = None
           THEN /\ Abort(Unhandled("AttributeError"))
                /\ UNCHANGED <<resultado, calls>>
           ELSE LET parsed == ParseFloat(Replace(raw_valor[1], ",", "."))
                    valor  == parsed.val
                    tipo   == Tipo(valor)
                IN  IF ~parsed.ok
                    THEN /\ Abort(ValorInvalido(ln'))
                         /\ UNCHANGED <<resultado, calls>>
                    ELSE \E resp \in Responses :
                         /\ calls' = append(calls, Call(descricao, tipo, resp))
                         /\ IF ~resp.ok
                            THEN /\ Abort(ErroGroq)
                                 /\ UNCHANGED resultado
                            ELSE IF ~Valid(descricao, _formatar_data(data))
                            THEN /\ Abort(Unhandled("ValidationError"))
                                 /\ UNCHANGED resultado
                            ELSE /\ resultado' = append(resultado,
                                        TransacaoCategorizada(
                                            descricao, valor, tipo,
                                            classificar_transacao(resp.content, tipo),
                                            _formatar_data(data),
                                            RowGet(fn, row, "Identificador"), portador))
                                 /\ UNCHANGED <<pc, error, output>>
    /\ UNCHANGED <<inputs, lines, fieldnames>>

\* the reader of a Nubank statement is exhausted
NubankEnd ==
    /\ pc = "nubank"
    /\ NextRow(lines, ln) = 0
    /\ ln' = Len(lines)
    /\ pc' = "saida"
    /\ UNCHANGED <<inputs, lines, fieldnames, resultado, calls, error, output>>

\* the output CSV is generated and answered
Saida ==
    /\ pc = "saida"
    /\ IF resultado = <<>>
       THEN Abort(Unhandled("IndexError"))
       ELSE /\ pc' = "Completed"
            /\ output' = Table(resultado, banco)
            /\ UNCHANGED error
    /\ UNCHANGED <<inputs, lines, ln, fieldnames, resultado, calls>>

Next ==
    \/ Start
    \/ ItauLine
    \/ ItauEnd
    \/ Header
    \/ NubankRow
    \/ NubankEnd
    \/ Saida

Spec == Init /\ [][Next]_vars

(***************************************************************************)
(* The statement as the parsers should see it, read off the input again.   *)
(***************************************************************************)
IsItau == Lower(banco) = "itau"

\* an Itaú line that is a row: exactly three ';'-separated fields
IsRow(line) == Len(Split(line, ";")) = 3

\* a Nubank line that is a row: not blank
NonBlank(line) == line # ""

\* the names in the header line of the file
HeaderNames ==
    IF lines = <<>> THEN {}
    ELSE LET names == Split(lines[1], ",")
         IN  { names[i] : i \in 1..Len(names) }

\* the rows of the file, in file order
SourceRows ==
    IF IsItau THEN SelectSeq(lines, IsRow)
    ELSE IF lines = <<>> THEN <<>>
    ELSE SelectSeq(Tail(lines), NonBlank)

\* the description and the amount cell of a row, as written in the file
SourceDescricao(line) ==
    IF IsItau THEN Str(Split(line, ";")[2])
    ELSE RowGet(FieldList(fieldnames), CsvRow(line), "Descricao")

SourceValor(line) ==
    IF IsItau THEN Str(Strip(Split(line, ";")[3]))
    ELSE RowGet(FieldList(fieldnames), CsvRow(line), "Valor")

\* the amount cell is missing or is no number once ',' is replaced by '.'
BadValor(line) ==
    \/ SourceValor(line) = None
    \/ ~ParseFloat(Replace(SourceValor(line)[1], ",", ".")).ok

\* the line numbered ln is a row the selected parser has read
RowRead ==
    IF IsItau
    THEN pc \in {"itau", "saida", "Completed", "Aborted"} /\ ln >= 1 /\ IsRow(lines[ln])
    ELSE /\ pc \in {"nubank", "saida", "Completed", "Aborted"}
         /\ required \subseteq HeaderNames
         /\ ln >= 2
         /\ NonBlank(lines[ln])

\* the classifier's answer is the transfer category
IsTransfer(content) == Lower(Strip(content)) = "transferencia"

(***************************************************************************)
(* C1: an invocation that has not completed has emitted nothing: a         *)
(* response body exists only in the Completed state, whatever the abort    *)
(* and however many rows were parsed and classified before it.             *)
(***************************************************************************)
C1_AllOrNothing == output # <<>> => pc = "Completed"

\* an abort after two rows were parsed and classified
C1_Witness ==
    pc = "Aborted" /\ Len(resultado) >= 2 /\ error.kind \in {"valor", "groq"} /\ output = <<>>

(***************************************************************************)
(* C2: in a completed invocation the transactions are the rows of the      *)
(* file, one per row and in file order, identified by trimmed description  *)
(* and amount.                                                             *)
(***************************************************************************)
C2_OnePerRowInOrder ==
    pc = "Completed" =>
        /\ Len(resultado) = Len(SourceRows)
        /\ \A i \in 1..Len(resultado) :
            /\ Strip(resultado[i].descricao) = Strip(SourceDescricao(SourceRows[i])[1])
            /\ resultado[i].valor
                = ParseFloat(Replace(SourceValor(SourceRows[i])[1], ",", ".")).val

\* a completed Itaú statement with two different rows and a skipped line
C2_Witness ==
    /\ pc = "Completed"
    /\ Len(resultado) >= 2
    /\ resultado[1].descricao # resultado[2].descricao
    /\ Len(lines) > Len(resultado)

(***************************************************************************)
(* C3: the direction of every transaction is Entrada exactly when its      *)
(* amount is above zero and Saída otherwise, zero included, and it is the  *)
(* direction sent to the classifier for that row.                          *)
(***************************************************************************)
C3_DirectionFromAmount ==
    \A i \in 1..Len(resultado) :
        /\ resultado[i].tipo = (IF resultado[i].valor.m > 0 THEN "Entrada" ELSE "Saida")
        /\ calls[i].tipo = resultado[i].tipo

\* an inflow and a zero amount classified as an outflow
C3_Witness ==
    \E i, j \in 1..Len(resultado) :
        /\ resultado[i].valor.m > 0 /\ resultado[i].tipo = "Entrada"
        /\ resultado[j].valor.m = 0 /\ resultado[j].tipo = "Saida"

(***************************************************************************)
(* C4, as claimed: an invocation whose format selector is no known format  *)
(* ends in Aborted with an input-shape error, before any row is parsed and *)
(* before any classification call, and never enters one of the parsers.    *)
(***************************************************************************)
KnownFormats == {"itau", "nubank"}

C4_UnknownFormatAborts ==
    Lower(banco) \notin KnownFormats =>
        /\ pc \in {"start", "Aborted"}
        /\ pc = "Aborted" =>
              error.status = 400 /\ ln = 0 /\ calls = <<>> /\ resultado = <<>>

(***************************************************************************)
(* C4, amended: a selector that is not 'itau' in any letter case, unknown  *)
(* ones included, is never rejected for itself and never reaches the Itaú  *)
(* parser; the header-driven parser handles it, and an input-shape error   *)
(* is answered only for a header without a required column, before any     *)
(* row is parsed and before any classification call.                       *)
(***************************************************************************)
C4_UnknownFormatUsesHeaderParser ==
    ~IsItau =>
        /\ pc # "itau"
        /\ pc \notin {"start", "header"} =>
            /\ fieldnames = (IF lines = <<>> THEN None ELSE Str(CsvRow(lines[1])))
            /\ (pc = "Aborted" /\ error.kind = "colunas") <=> (FieldSet(fieldnames) \cap required # required)
            /\ (pc = "Aborted" /\ error.kind = "colunas") =>
                    calls = <<>> /\ resultado = <<>> /\ ln <= 1

\* an unknown selector whose statement was parsed as a Nubank one and completed
C4_Witness ==
    Lower(banco) \notin KnownFormats /\ pc = "Completed" /\ Len(resultado) >= 1

(***************************************************************************)
(* C5: a Nubank header without one of the four required names aborts with  *)
(* the client error that names exactly the missing names, before any data  *)
(* row is read and before any classification call.                         *)
(***************************************************************************)
C5_MissingColumns ==
    (pc \notin {"start", "header", "itau"} /\ ~IsItau /\ ~(required \subseteq HeaderNames)) =>
        /\ pc = "Aborted"
        /\ error.status = 400
        /\ error.kind = "colunas"
        /\ error.faltando = { f \in required : f \notin HeaderNames }
        /\ ln <= 1
        /\ calls = <<>>
        /\ resultado = <<>>

\* a header with two of the four names, followed by a data row
C5_Witness ==
    /\ pc = "Aborted"
    /\ error.kind = "colunas"
    /\ error.faltando = {"Descricao", "Identificador"}
    /\ Len(lines) >= 2

(***************************************************************************)
(* C6: an Itaú line that does not split on ';' into three fields is passed *)
(* over: the step appends no transaction, calls no classifier, raises no   *)
(* error and moves to the next line; at any moment the transactions are    *)
(* those of the three-field lines read so far, the same as if the skipped  *)
(* lines were not there.                                                   *)
(***************************************************************************)
C6_SoftSkip ==
    /\ [][(pc = "itau" /\ ln < Len(lines) /\ ~IsRow(lines[ln + 1])) =>
            (ln' = ln + 1 /\ UNCHANGED <<pc, resultado, calls, error, output>>)]_vars
    /\ [](pc = "itau" =>
            LET rows == SelectSeq(SubSeq(lines, 1, ln), IsRow)
            IN  /\ Len(resultado) = Len(rows)
                /\ Len(calls) = Len(rows)
                /\ \A i \in 1..Len(rows) :
                      resultado[i].descricao = Strip(Split(rows[i], ";")[2]))

\* a two-field line was passed over and the line after it became a transaction
C6_Witness ==
    /\ pc = "itau"
    /\ ln >= 2
    /\ Len(Split(lines[ln - 1], ";")) = 2
    /\ IsRow(lines[ln])
    /\ Len(resultado) >= 1
    /\ resultado[Len(resultado)].descricao = Strip(Split(lines[ln], ";")[2])

(***************************************************************************)
(* C7, as claimed: once a row whose amount is no number has been read, in  *)
(* either format, the invocation is aborted with the client error that     *)
(* cites the line number of that row, and no classification call was made  *)
(* for it.                                                                 *)
(***************************************************************************)
C7_BadAmountAborts ==
    (RowRead /\ BadValor(lines[ln])) =>
        /\ pc = "Aborted"
        /\ error = ValorInvalido(ln)
        /\ Len(calls) = Len(resultado)

(***************************************************************************)
(* C8, as claimed: a transfer answer becomes "Transferência recebida" for  *)
(* an inflow and "Transferência enviada" for an outflow, the unspecialized *)
(* label is never a final category, and any other non-empty answer is the  *)
(* category unchanged.                                                     *)
(***************************************************************************)
C8_AnswerUnchanged ==
    \A i \in 1..Len(resultado) :
        LET answer == calls[i].resposta.content
        IN  /\ IsTransfer(answer) =>
                resultado[i].categoria =
                    (IF resultado[i].tipo = "Entrada"
                     THEN "Transferencia recebida" ELSE "Transferencia enviada")
            /\ ~IsTransfer(resultado[i].categoria)
            /\ (~IsTransfer(answer) /\ answer # "") => resultado[i].categoria = answer

(***************************************************************************)
(* C8, amended: as claimed, but any other answer is the category with its  *)
(* leading and trailing whitespace removed, and "Outros" when nothing is   *)
(* left.                                                                   *)
(***************************************************************************)
C8_AnswerTrimmed ==
    \A i \in 1..Len(resultado) :
        LET answer == calls[i].resposta.content
            trimmed == Strip(answer)
            transfer == Lower(trimmed) = "transferencia"
        IN  /\ transfer =>
                resultado[i].categoria =
                    (IF resultado[i].tipo = "Entrada"
                     THEN "Transferencia recebida" ELSE "Transferencia enviada")
            /\ ~IsTransfer(resultado[i].categoria)
            /\ (~transfer /\ trimmed # "") => resultado[i].categoria = trimmed
            /\ trimmed = "" => resultado[i].categoria = "Outros"

\* a transfer answer in capitals specialized both ways, and a padded answer
C8_Witness ==
    \E i, j, k \in 1..Len(resultado) :
        /\ IsTransfer(calls[i].resposta.content)
        /\ resultado[i].categoria = "Transferencia recebida"
        /\ IsTransfer(calls[j].resposta.content)
        /\ resultado[j].categoria = "Transferencia enviada"
        /\ calls[k].resposta.content = " Saude"
        /\ resultado[k].categoria = "Saude"

(***************************************************************************)
(* C9, as claimed: Aborted is reached only through a header validation     *)
(* failure, an amount that is no number or a classification failure (the   *)
(* code knows no unknown format), and an input without any row ends in     *)
(* Completed with no transaction.                                          *)
(***************************************************************************)
ListedTriggers == {"colunas", "valor", "groq"}

C9_TerminalStates ==
    /\ pc = "Aborted" => error.kind \in ListedTriggers
    /\ (pc \in {"Completed", "Aborted"} /\ (IsItau \/ required \subseteq HeaderNames)
            /\ SourceRows = <<>>) =>
          pc = "Completed" /\ resultado = <<>>

(***************************************************************************)
(* C10, as claimed: the description of every transaction is the text of    *)
(* its row with leading and trailing whitespace removed, and it is the     *)
(* description sent to the classifier for that row.                        *)
(***************************************************************************)
C10_DescriptionTrimmed ==
    /\ \A i \in 1..Len(resultado) : resultado[i].descricao = calls[i].descricao
    /\ pc = "Completed" =>
          \A i \in 1..Len(resultado) :
              resultado[i].descricao = Strip(SourceDescricao(SourceRows[i])[1])

====
